---- MODULE Spec2Model ----
(***************************************************************************)
(* Client side of the tf.data service: registration of a dataset with the  *)
(* dispatcher and construction of the dataset that reads from a job        *)
(* (tensorflow/python/data/experimental/ops/data_service_ops.py).          *)
(*                                                                         *)
(* One behaviour is one client session: a call of one of the entry points  *)
(* (distribute, _distribute, register_dataset, from_dataset_id,            *)
(* _from_dataset_id) runs function by function; a successful               *)
(* register_dataset may be followed by from_dataset_id on the returned id. *)
(*                                                                         *)
(* Values.  A Python string is a sequence of one-character strings.  An    *)
(* optional integer is <<>> (None) or <<n>>.  A job name and a service are *)
(* records tagged with the Python type of the value.                       *)
(***************************************************************************)
EXTENDS Integers, Sequences, FiniteSets, TLC

VARIABLES
  tf2,          \* tf2.enabled(): selects _DataServiceDataset (V2 or V1)
  api,          \* the entry point the caller invoked
  args,         \* the arguments the caller passed to it
  pc,           \* the function about to run
  compression,  \* local `compression` (reassigned by _distribute)
  job_name,     \* local `job_name` (reassigned by from_dataset_id)
  dataset_id,   \* local `dataset_id`
  element_spec, \* local `element_spec` handed to the reader constructor
  err,          \* the exception that ended the call, NoError if none
  requests,     \* dispatcher-facing ops executed so far, in order
  self,         \* fields of the _DataServiceDatasetV2 under construction
  result,       \* the dataset returned to the caller, <<>> if none
  cluster,      \* the tf.data service: registered datasets and jobs
  observed      \* what the service has answered its callers so far

vars == <<tf2, api, args, pc, compression, job_name, dataset_id,
          element_spec, err, requests, self, result, cluster, observed>>

--------------------------------------------------------------------------
(* Bounds *)

MaxConsumers == 1
MaxDatasetId == 12
MaxNameLen == 2
MaxServiceLen == 6
MaxCalls == 3
NumWorkers == 2
JobWorkers == 1
SourceLen == 1
MaxRounds == 3
MaxJoins == 2
MaxRoundRobinJoins == 3

--------------------------------------------------------------------------
(* Python values *)

None == <<>>
Some(n) == <<n>>

COMPRESSION_AUTO == "AUTO"
COMPRESSION_NONE == "None"

PARALLEL_EPOCHS == "parallel_epochs"
DISTRIBUTED_EPOCH == "distributed_epoch"

\* an exception: its type, the check that raised it, and the values its
\* message is formatted from
NoError == [type |-> "none", rule |-> "none", detail |-> <<>>]
ValueError(rule) == [type |-> "ValueError", rule |-> rule, detail |-> <<>>]
TypeError(rule) == [type |-> "TypeError", rule |-> rule, detail |-> <<>>]
UnboundLocalError(rule) ==
  [type |-> "UnboundLocalError", rule |-> rule, detail |-> <<>>]

NoJobName == [kind |-> "none", s |-> <<>>]
StrJobName(s) == [kind |-> "str", s |-> s]
TensorJobName(s) == [kind |-> "tensor", s |-> s]
OtherJobName == [kind |-> "other", s |-> <<>>]

StrService(s) == [kind |-> "str", s |-> s, protocol |-> <<>>, address |-> <<>>]
TupleService(p, a) == [kind |-> "tuple", s |-> <<>>, protocol |-> p, address |-> a]
OtherService == [kind |-> "other", s |-> <<>>, protocol |-> <<>>, address |-> <<>>]

Separator == <<":", "/", "/">>
DefaultProtocol == <<"g", "r", "p", "c">>

--------------------------------------------------------------------------
(* ProcessingMode.validate *)

ValidModes == {PARALLEL_EPOCHS, DISTRIBUTED_EPOCH}

ValidModesList == <<PARALLEL_EPOCHS, DISTRIBUTED_EPOCH>>

ValidateProcessingMode_Accepting(mode) == NoError

\* "{0} is not a valid processing mode. Valid modes: {1}".format(mode,
\* valid_modes)
ValidateProcessingMode(mode) ==
  IF mode \notin ValidModes
  THEN [type |-> "ValueError", rule |-> "processing_mode",
        detail |-> <<mode>> \o ValidModesList]
  ELSE NoError

(* _check_job_name *)

CheckJobName_EmptyAccepted(name) ==
  IF name.kind = "none" THEN NoError
  ELSE IF name.kind # "str" THEN ValueError("job_name_type")
  ELSE NoError

CheckJobName_TensorAccepted(name) ==
  IF name.kind = "none" THEN NoError
  ELSE IF name.kind \notin {"str", "tensor"} THEN ValueError("job_name_type")
  ELSE IF name.s = <<>> THEN ValueError("job_name_empty")
  ELSE NoError

CheckJobName(name) ==
  IF name.kind = "none" THEN NoError
  ELSE IF name.kind # "str" THEN ValueError("job_name_type")
  ELSE IF name.s = <<>> THEN ValueError("job_name_empty")
  ELSE NoError

(* the compression argument check of _distribute, _register_dataset and
   _from_dataset_id *)

ValidCompressions == {COMPRESSION_AUTO, COMPRESSION_NONE}

CheckCompression(c) ==
  IF c \notin ValidCompressions THEN ValueError("compression") ELSE NoError

--------------------------------------------------------------------------
(* str.split("://") and _parse_service *)

StartsWith(s, p) ==
  /\ Len(s) >= Len(p)
  /\ SubSeq(s, 1, Len(p)) = p

RECURSIVE Split(_, _)
\* Split(s, cur): the parts of cur \o s at each occurrence of "://",
\* scanning left to right, cur being the part read so far.
Split(s, cur) ==
  IF s = <<>> THEN <<cur>>
  ELSE IF StartsWith(s, Separator)
       THEN <<cur>> \o Split(SubSeq(s, Len(Separator) + 1, Len(s)), <<>>)
       ELSE Split(Tail(s), Append(cur, Head(s)))

ParseService_FirstTwo(service) ==
  IF service.kind # "str"
  THEN [err |-> ValueError("service_type"), protocol |-> <<>>, address |-> <<>>]
  ELSE IF service.s = <<>>
  THEN [err |-> ValueError("service_empty"), protocol |-> <<>>, address |-> <<>>]
  ELSE LET parts == Split(service.s, <<>>) IN
       IF Len(parts) >= 2
       THEN [err |-> NoError, protocol |-> parts[1], address |-> parts[2]]
       ELSE [err |-> NoError, protocol |-> DefaultProtocol, address |-> parts[1]]

ParseService(service) ==
  IF service.kind # "str"
  THEN [err |-> ValueError("service_type"), protocol |-> <<>>, address |-> <<>>]
  ELSE IF service.s = <<>>
  THEN [err |-> ValueError("service_empty"), protocol |-> <<>>, address |-> <<>>]
  ELSE LET parts == Split(service.s, <<>>) IN
       IF Len(parts) = 2
       THEN [err |-> NoError, protocol |-> parts[1], address |-> parts[2]]
       ELSE IF Len(parts) = 1
       THEN [err |-> NoError, protocol |-> DefaultProtocol, address |-> parts[1]]
       ELSE [err |-> ValueError("service_malformed"),
             protocol |-> <<>>, address |-> <<>>]

ResolveService_TupleChecked(service) ==
  IF service.kind = "tuple"
  THEN IF service.protocol = <<>> \/ service.address = <<>>
       THEN [err |-> ValueError("service_empty"),
             protocol |-> <<>>, address |-> <<>>]
       ELSE [err |-> NoError, protocol |-> service.protocol,
             address |-> service.address]
  ELSE ParseService(service)

\* `if isinstance(service, tuple): protocol, address = service
\*  else: protocol, address = _parse_service(service)`
ResolveService(service) ==
  IF service.kind = "tuple"
  THEN [err |-> NoError, protocol |-> service.protocol,
        address |-> service.address]
  ELSE ParseService(service)

--------------------------------------------------------------------------
(* string_ops.as_string and string_ops.string_join, as used by
   from_dataset_id to namespace the job name by the dataset id *)

DigitChar(d) ==
  CASE d = 0 -> "0" [] d = 1 -> "1" [] d = 2 -> "2" [] d = 3 -> "3"
    [] d = 4 -> "4" [] d = 5 -> "5" [] d = 6 -> "6" [] d = 7 -> "7"
    [] d = 8 -> "8" [] d = 9 -> "9"

RECURSIVE AsString(_)
AsString(n) ==
  IF n < 0 THEN <<"-">> \o AsString(0 - n)
  ELSE IF n < 10 THEN <<DigitChar(n)>>
  ELSE AsString(n \div 10) \o <<DigitChar(n % 10)>>

RECURSIVE StringJoin(_, _)
StringJoin(inputs, separator) ==
  IF inputs = <<>> THEN <<>>
  ELSE IF Len(inputs) = 1 THEN inputs[1]
  ELSE inputs[1] \o separator \o StringJoin(Tail(inputs), separator)

DatasetIdPrefix == <<"d", "a", "t", "a", "s", "e", "t", "_", "i", "d", "=">>

JoinSeparator == <<"/">>

DeriveJobName_Unseparated(id, name) ==
  StringJoin(<<DatasetIdPrefix, AsString(id), name>>, <<>>)

\* job_name = string_join(["dataset_id=", as_string(dataset_id), job_name], "/")
DeriveJobName(id, name) ==
  StringJoin(<<DatasetIdPrefix, AsString(id), name>>, JoinSeparator)

--------------------------------------------------------------------------
(* _distribute: `if compression == COMPRESSION_AUTO and
   data_transfer_protocol is not None: compression = COMPRESSION_NONE` *)

ResolveCompression_Unchanged(requested, data_transfer_protocol) ==
  requested

ResolveCompression_Always(requested, data_transfer_protocol) ==
  IF data_transfer_protocol # "None" THEN COMPRESSION_NONE
  ELSE IF requested = COMPRESSION_NONE THEN COMPRESSION_AUTO
  ELSE requested

ResolveCompression(requested, data_transfer_protocol) ==
  IF requested = COMPRESSION_AUTO /\ data_transfer_protocol # "None"
  THEN COMPRESSION_NONE
  ELSE requested

--------------------------------------------------------------------------
(* _register_dataset: the pipeline that is registered *)

RegisteredPipeline_Unmarked(dataset, c) == Append(dataset.steps, "prefetch")

RegisteredPipeline(dataset, c) ==
  LET mapped == IF c = COMPRESSION_AUTO
                THEN Append(dataset.steps, "map_compress")
                ELSE Append(dataset.steps, "map_identity")
  IN Append(mapped, "prefetch")

ExternalStatePolicy(dataset) ==
  IF dataset.external_state_policy = "None" THEN "WARN"
  ELSE dataset.external_state_policy

RegisterDatasetOp(dataset, c, endpoint) ==
  [op |-> "RegisterDataset",
   pipeline |-> RegisteredPipeline(dataset, c),
   address |-> endpoint.address,
   protocol |-> endpoint.protocol,
   external_state_policy |-> ExternalStatePolicy(dataset)]

--------------------------------------------------------------------------
(* The dispatcher's dataset registry, behind the register_dataset op.  The
   dispatcher is not part of the client module; the registry follows the
   documented contract: "If the dataset is already registered with the
   tf.data service, register_dataset returns the already-registered
   dataset's id." *)

EmptyCluster ==
  [datasets |-> <<>>, jobs |-> <<>>, workers |-> 0, unbounded |-> FALSE]

NothingObserved == [registered |-> <<>>, consumers |-> <<>>, calls |-> <<>>]

\* what the dispatcher tells two registrations apart by
DatasetKey(request) ==
  [pipeline |-> request.pipeline,
   external_state_policy |-> request.external_state_policy]

GetOrRegisterDataset(c, request) ==
  LET key == DatasetKey(request)
      found == {i \in 1..Len(c.datasets) : c.datasets[i] = key}
  IN
  IF found # {}
  THEN [cluster |-> c, dataset_id |-> (CHOOSE i \in found : TRUE) - 1]
  ELSE [cluster |-> [c EXCEPT !.datasets = Append(@, key)],
        dataset_id |-> Len(c.datasets)]

--------------------------------------------------------------------------
(* _DataServiceDatasetV2.__init__ *)

\* `consumer_index is None != num_consumers is None`: Python chains the
\* three comparison operators `is`, `!=`, `is`, so the condition is
\* (consumer_index is None) and (None != num_consumers) and
\* (num_consumers is None).
CouplingCondition(consumer_index, num_consumers) ==
  /\ consumer_index = None
  /\ None # num_consumers
  /\ num_consumers = None

Encode(optional) == IF optional = None THEN 0 - 1 ELSE optional[1]

NumConsumersWithoutJobName_BothSet(a) ==
  /\ a.consumer_index # None
  /\ a.num_consumers # None
  /\ a.job_name.kind = "none"

\* `num_consumers is not None and job_name is None`
NumConsumersWithoutJobName(a) ==
  a.num_consumers # None /\ a.job_name.kind = "none"

DataServiceDatasetV2(a) ==
  IF CouplingCondition(a.consumer_index, a.num_consumers)
  THEN [err |-> ValueError("coupling"), self |-> <<>>, ops |-> <<>>]
  ELSE IF NumConsumersWithoutJobName(a)
  THEN [err |-> ValueError("num_consumers_job_name"),
        self |-> <<>>, ops |-> <<>>]
  ELSE
    LET fields ==
          [dataset_id |-> a.dataset_id,
           processing_mode |-> a.processing_mode,
           address |-> a.address,
           protocol |-> a.protocol,
           job_name |-> IF a.job_name.kind = "none" THEN <<>>
                        ELSE a.job_name.s,
           consumer_index |-> Encode(a.consumer_index),
           num_consumers |-> Encode(a.num_consumers),
           element_spec |-> a.element_spec,
           data_transfer_protocol |-> a.data_transfer_protocol]
    IN
    \* `super(_DataServiceDatasetV2, self).__init__(variant_tensor)` reads
    \* the local variant_tensor before the statement that assigns it, so
    \* the data_service_dataset_v2 op that follows is never created.
    [err |-> UnboundLocalError("variant_tensor"),
     self |-> <<fields>>, ops |-> <<>>]

(* _DataServiceDatasetV1.__init__ *)

V1Parameters ==
  {"dataset_id", "processing_mode", "address", "element_spec", "protocol",
   "data_transfer_protocol", "job_name", "consumer_index", "num_consumers",
   "max_outstanding_requests", "max_request_pipelining_per_worker",
   "task_refresh_interval_hint_ms", "target_worker"}

\* the keywords of the call `_DataServiceDataset(...)` in _from_dataset_id
ConstructorKeywords ==
  {"dataset_id", "processing_mode", "address", "element_spec", "protocol",
   "data_transfer_protocol", "job_name", "consumer_index", "num_consumers",
   "max_outstanding_requests", "max_request_pipelining_per_worker",
   "task_refresh_interval_hint_ms", "target_workers"}

DataServiceDatasetV1(a) ==
  IF ~(ConstructorKeywords \subseteq V1Parameters)
  THEN [err |-> TypeError("unexpected_keyword"), self |-> <<>>, ops |-> <<>>]
  ELSE DataServiceDatasetV2(a)

\* `_DataServiceDataset = V2 if tf2.enabled() else V1`
DataServiceDataset(enabled, a) ==
  IF enabled THEN DataServiceDatasetV2(a) ELSE DataServiceDatasetV1(a)

--------------------------------------------------------------------------
(* The caller's inputs *)

Apis == {"distribute", "_distribute", "register_dataset",
         "from_dataset_id", "_from_dataset_id"}

Modes == {PARALLEL_EPOCHS, DISTRIBUTED_EPOCH, "bogus"}

Services ==
  { StrService(<<"h">>),
    StrService(<<"g", ":", "/", "/", "h">>),
    StrService(<<"a", ":", "/", "/", "b", ":", "/", "/", "c">>),
    StrService(<<>>),
    TupleService(<<"g">>, <<"h">>),
    OtherService }

JobNames ==
  { NoJobName, StrJobName(<<>>), StrJobName(<<"t">>),
    TensorJobName(<<"t">>), OtherJobName }

OptionalConsumers == {None} \cup {Some(n) : n \in (0 - 1)..MaxConsumers}

DataTransferProtocols == {"None", "custom"}

Compressions == {COMPRESSION_AUTO, COMPRESSION_NONE, "GZIP"}

ElementSpecs == {"None", "spec"}

RegisteredIds == 0..1

Datasets ==
  [steps : {<<"source">>}, element_spec : {"spec"},
   external_state_policy : {"None", "FAIL"}]

NoDataset ==
  [steps |-> <<>>, element_spec |-> "None", external_state_policy |-> "None"]

\* The arguments each entry point takes; a parameter an entry point does not
\* have is held at the default of the function it calls.
ArgsOf(a) ==
  [processing_mode :
     IF a = "register_dataset" THEN {PARALLEL_EPOCHS} ELSE Modes,
   service : Services,
   job_name : IF a = "register_dataset" THEN {NoJobName} ELSE JobNames,
   consumer_index :
     IF a = "register_dataset" THEN {None} ELSE OptionalConsumers,
   num_consumers :
     IF a = "register_dataset" THEN {None} ELSE OptionalConsumers,
   data_transfer_protocol :
     IF a = "register_dataset" THEN {"None"} ELSE DataTransferProtocols,
   compression :
     IF a \in {"register_dataset", "from_dataset_id"}
     THEN {COMPRESSION_AUTO} ELSE Compressions,
   element_spec :
     IF a \in {"from_dataset_id", "_from_dataset_id"}
     THEN ElementSpecs ELSE {"spec"},
   dataset_id :
     IF a \in {"from_dataset_id", "_from_dataset_id"}
     THEN RegisteredIds ELSE {0 - 1},
   dataset :
     IF a \in {"from_dataset_id", "_from_dataset_id"}
     THEN {NoDataset} ELSE Datasets]

Init ==
  /\ tf2 \in BOOLEAN
  /\ api \in Apis
  /\ args \in ArgsOf(api)
  /\ pc = api
  /\ compression = args.compression
  /\ job_name = args.job_name
  /\ dataset_id = args.dataset_id
  /\ element_spec = args.element_spec
  /\ err = NoError
  /\ requests = <<>>
  /\ self = <<>>
  /\ result = <<>>
  /\ cluster = EmptyCluster
  /\ observed = NothingObserved

Raise(e) ==
  /\ err' = e
  /\ pc' = "done"

--------------------------------------------------------------------------
(* distribute *)

Distribute ==
  /\ pc = "distribute"
  /\ LET e == CheckJobName(job_name) IN
     IF e # NoError
     THEN Raise(e)
     ELSE /\ pc' = "_distribute"
          /\ err' = err
  /\ UNCHANGED <<cluster, observed>>
  /\ UNCHANGED <<tf2, api, args, compression, job_name, dataset_id,
                 element_spec, requests, self, result>>

(* _distribute, up to the application of _apply_fn to the dataset *)

DistributeOutcome_ModeUnchecked(mode, c, data_transfer_protocol) ==
  IF CheckCompression(c) # NoError
  THEN [err |-> CheckCompression(c), compression |-> c]
  ELSE [err |-> NoError,
        compression |-> ResolveCompression(c, data_transfer_protocol)]

DistributeOutcome(mode, c, data_transfer_protocol) ==
  IF ValidateProcessingMode(mode) # NoError
  THEN [err |-> ValidateProcessingMode(mode), compression |-> c]
  ELSE IF CheckCompression(c) # NoError
  THEN [err |-> CheckCompression(c), compression |-> c]
  ELSE [err |-> NoError,
        compression |-> ResolveCompression(c, data_transfer_protocol)]

_Distribute ==
  /\ pc = "_distribute"
  /\ LET r == DistributeOutcome(args.processing_mode, compression,
                                args.data_transfer_protocol) IN
     IF r.err # NoError
     THEN /\ Raise(r.err)
          /\ UNCHANGED compression
     ELSE /\ compression' = r.compression
          /\ pc' = "_register_dataset"
          /\ err' = err
  /\ UNCHANGED <<cluster, observed>>
  /\ UNCHANGED <<tf2, api, args, job_name, dataset_id, element_spec,
                 requests, self, result>>

(* register_dataset *)

RegisterDataset ==
  /\ pc = "register_dataset"
  /\ compression' = COMPRESSION_AUTO
  /\ pc' = "_register_dataset"
  /\ UNCHANGED <<cluster, observed>>
  /\ UNCHANGED <<tf2, api, args, job_name, dataset_id, element_spec, err,
                 requests, self, result>>

(* _register_dataset; the id is the one the dispatcher answers with *)

RegisterOutcome(service, dataset, c) ==
  IF CheckCompression(c) # NoError
  THEN [err |-> CheckCompression(c), ops |-> <<>>]
  ELSE IF ResolveService(service).err # NoError
  THEN [err |-> ResolveService(service).err, ops |-> <<>>]
  ELSE [err |-> NoError,
        ops |-> <<RegisterDatasetOp(dataset, c, ResolveService(service))>>]

_RegisterDataset ==
  /\ pc = "_register_dataset"
  /\ LET r == RegisterOutcome(args.service, args.dataset, compression) IN
     IF r.err # NoError
     THEN /\ Raise(r.err)
          /\ UNCHANGED <<requests, dataset_id, element_spec>>
     ELSE /\ requests' = requests \o r.ops
          /\ \E id \in RegisteredIds : dataset_id' = id
          /\ element_spec' = args.dataset.element_spec
          /\ pc' = IF api = "register_dataset" THEN "done"
                   ELSE "_from_dataset_id"
          /\ err' = err
  /\ UNCHANGED <<cluster, observed>>
  /\ UNCHANGED <<tf2, api, args, compression, job_name, self, result>>

(* from_dataset_id *)

FromDatasetId ==
  /\ pc = "from_dataset_id"
  /\ LET e == CheckJobName(job_name) IN
     IF e # NoError
     THEN /\ Raise(e)
          /\ UNCHANGED <<job_name, compression>>
     ELSE /\ job_name' = IF job_name.kind # "none"
                         THEN TensorJobName(DeriveJobName(dataset_id,
                                                          job_name.s))
                         ELSE job_name
          /\ compression' = COMPRESSION_AUTO
          /\ pc' = "_from_dataset_id"
          /\ err' = err
  /\ UNCHANGED <<cluster, observed>>
  /\ UNCHANGED <<tf2, api, args, dataset_id, element_spec, requests, self,
                 result>>

(* _from_dataset_id, up to the call of the reader constructor *)

FromDatasetIdChecks(mode, c, name, spec, service) ==
  IF ValidateProcessingMode(mode) # NoError
  THEN ValidateProcessingMode(mode)
  ELSE IF CheckCompression(c) # NoError THEN CheckCompression(c)
  ELSE IF name.kind \notin {"none", "str", "tensor"}
  THEN ValueError("job_name_type")
  ELSE IF spec = "None" THEN ValueError("element_spec")
  ELSE ResolveService(service).err

DataServiceElementSpec(c, spec) ==
  IF c = COMPRESSION_AUTO THEN "variant" ELSE spec

_FromDatasetId ==
  /\ pc = "_from_dataset_id"
  /\ LET e == FromDatasetIdChecks(args.processing_mode, compression,
                                  job_name, element_spec, args.service) IN
     IF e # NoError
     THEN Raise(e)
     ELSE /\ pc' = "_DataServiceDataset"
          /\ err' = err
  /\ UNCHANGED <<cluster, observed>>
  /\ UNCHANGED <<tf2, api, args, compression, job_name, dataset_id,
                 element_spec, requests, self, result>>

(* _from_dataset_id, from the call of the reader constructor to its return *)

ConstructorArgs ==
  [dataset_id |-> dataset_id,
   processing_mode |-> args.processing_mode,
   address |-> ResolveService(args.service).address,
   protocol |-> ResolveService(args.service).protocol,
   element_spec |-> DataServiceElementSpec(compression, element_spec),
   data_transfer_protocol |-> args.data_transfer_protocol,
   job_name |-> job_name,
   consumer_index |-> args.consumer_index,
   num_consumers |-> args.num_consumers]

\* the dataset _from_dataset_id returns once the reader is constructed
ReturnedDataset(reader, c, name, spec) ==
  [source |-> reader,
   steps |-> IF c = COMPRESSION_AUTO THEN <<"map_uncompress">> ELSE <<>>,
   element_spec |-> spec,
   auto_shard_policy |-> IF name.kind # "none" THEN "OFF" ELSE "unchanged"]

Construct ==
  /\ pc = "_DataServiceDataset"
  /\ LET r == DataServiceDataset(tf2, ConstructorArgs) IN
     /\ self' = r.self
     /\ requests' = requests \o r.ops
     /\ err' = r.err
     /\ result' = IF r.err = NoError
                  THEN <<ReturnedDataset(r.self[1], compression, job_name,
                                         element_spec)>>
                  ELSE <<>>
  /\ pc' = "done"
  /\ UNCHANGED <<cluster, observed>>
  /\ UNCHANGED <<tf2, api, args, compression, job_name, dataset_id,
                 element_spec>>

(* a caller that registered a dataset goes on to read it by its id *)

StartFromDatasetId ==
  /\ pc = "done"
  /\ api = "register_dataset"
  /\ err = NoError
  /\ \E a \in ArgsOf("from_dataset_id") :
       /\ a.dataset_id = dataset_id
       /\ a.service = args.service
       /\ args' = a
       /\ job_name' = a.job_name
       /\ element_spec' = a.element_spec
       /\ compression' = a.compression
  /\ api' = "from_dataset_id"
  /\ pc' = "from_dataset_id"
  /\ UNCHANGED <<cluster, observed>>
  /\ UNCHANGED <<tf2, dataset_id, err, requests, self, result>>

Next ==
  \/ Distribute
  \/ _Distribute
  \/ RegisterDataset
  \/ _RegisterDataset
  \/ FromDatasetId
  \/ _FromDatasetId
  \/ Construct
  \/ StartFromDatasetId

Spec == Init /\ [][Next]_vars

TypeOK ==
  /\ tf2 \in BOOLEAN
  /\ api \in Apis
  /\ pc \in Apis \cup {"_register_dataset", "_DataServiceDataset", "done"}
  /\ compression \in Compressions
  /\ err.type \in {"none", "ValueError", "TypeError", "UnboundLocalError"}
  /\ Len(requests) <= 1
  /\ Len(self) <= 1
  /\ Len(result) <= 1

--------------------------------------------------------------------------
(* Vocabulary of the properties *)

ReaderApis == {"distribute", "_distribute", "from_dataset_id",
               "_from_dataset_id"}

PublicReaderApis == {"distribute", "from_dataset_id"}

IsSet(optional) == optional # None

ExactlyOneSet(a, b) == IsSet(a) # IsSet(b)

IsConfigurationError(e) == e.type = "ValueError"

WellFormedServices ==
  { StrService(<<"h">>), StrService(<<"g", ":", "/", "/", "h">>),
    TupleService(<<"g">>, <<"h">>) }

\* the job-spec rules of the specification, on the caller's arguments
Rule1Violated == ExactlyOneSet(args.consumer_index, args.num_consumers)
Rule2Violated == IsSet(args.num_consumers) /\ args.job_name.kind = "none"
Rule3Violated ==
  /\ args.job_name.kind # "none"
  /\ (args.job_name.kind # "str" \/ args.job_name.s = <<>>)

\* every argument other than the job spec is valid
ValidOutsideJobSpec ==
  /\ args.processing_mode \in {PARALLEL_EPOCHS, DISTRIBUTED_EPOCH}
  /\ args.compression \in {COMPRESSION_AUTO, COMPRESSION_NONE}
  /\ args.service \in WellFormedServices
  /\ args.element_spec # "None"

ValidInput ==
  /\ ValidOutsideJobSpec
  /\ ~Rule1Violated
  /\ ~Rule2Violated
  /\ ~Rule3Violated

\* the ops the current call has executed (a from_dataset_id call registers
\* nothing: a registration in the log is the preceding register_dataset's)
RequestsOfCall ==
  IF api \in {"from_dataset_id", "_from_dataset_id"}
  THEN SelectSeq(requests, LAMBDA r : r.op # "RegisterDataset")
  ELSE requests

Registrations == SelectSeq(requests, LAMBDA r : r.op = "RegisterDataset")

HasStep(steps, step) == \E i \in 1..Len(steps) : steps[i] = step

--------------------------------------------------------------------------
(* C1 *)

\* C1: whenever the V2 reader constructor is run with exactly one of
\* consumer_index and num_consumers set, it ends with a configuration error.
C1_CouplingRejected ==
  [][(/\ api \in PublicReaderApis
      /\ pc = "_DataServiceDataset"
      /\ tf2
      /\ ExactlyOneSet(args.consumer_index, args.num_consumers))
     => IsConfigurationError(err')]_vars

--------------------------------------------------------------------------
(* C2 *)

\* C2: whenever the V2 reader constructor is run with num_consumers set and
\* no job name, it ends with a configuration error and builds nothing,
\* whatever consumer_index is.
C2_NumConsumersRequiresJobName ==
  [][(/\ pc = "_DataServiceDataset"
      /\ tf2
      /\ IsSet(args.num_consumers)
      /\ job_name.kind = "none")
     => (/\ IsConfigurationError(err')
         /\ self' = <<>>
         /\ result' = <<>>
         /\ requests' = requests)]_vars

C2_Witness ==
  /\ pc = "done"
  /\ tf2
  /\ api = "from_dataset_id"
  /\ IsSet(args.num_consumers)
  /\ ~IsSet(args.consumer_index)
  /\ args.job_name.kind = "none"
  /\ ValidOutsideJobSpec
  /\ err = ValueError("num_consumers_job_name")

--------------------------------------------------------------------------
(* C3 *)

\* C3: a call of distribute or from_dataset_id that ends with a
\* configuration error has issued no request to the dispatcher.
C3_ConfigurationErrorsBeforeRequests ==
  (/\ api \in PublicReaderApis
   /\ pc = "done"
   /\ IsConfigurationError(err))
  => RequestsOfCall = <<>>

--------------------------------------------------------------------------
(* C4 *)

\* C4: a call that builds a V2 reader from input satisfying every validation
\* rule ends without an exception and returns a reader carrying exactly the
\* caller's parameters.
C4_ValidInputConstructs ==
  (/\ api \in ReaderApis
   /\ pc = "done"
   /\ tf2
   /\ ValidInput)
  => (/\ err = NoError
      /\ result # <<>>
      /\ self # <<>>
      /\ result[1].source = self[1]
      /\ self[1].processing_mode = args.processing_mode
      /\ self[1].consumer_index = Encode(args.consumer_index)
      /\ self[1].num_consumers = Encode(args.num_consumers))

--------------------------------------------------------------------------
(* C5 *)

\* C5 as stated: on every path, when the reader is built with a
\* data_transfer_protocol override and the caller's compression is Auto, the
\* compression the reader uses is None.
C5_OverrideDowngradesOnEveryPath ==
  (/\ api \in ReaderApis
   /\ pc = "_DataServiceDataset"
   /\ args.data_transfer_protocol # "None"
   /\ args.compression = COMPRESSION_AUTO)
  => compression = COMPRESSION_NONE

\* C5 amended: the downgrade is distribute's.  When distribute or _distribute
\* builds the reader with an override and a requested Auto, the reader gets
\* compression None: its element spec is the caller's, not the compressed
\* variant, and no decompress step is added.  from_dataset_id reads with
\* Auto and _from_dataset_id with the compression it was given, override or
\* not.
C5_OverrideDowngradesInDistribute ==
  /\ (/\ api \in {"distribute", "_distribute"}
      /\ pc \in {"_DataServiceDataset", "done"}
      /\ requests # <<>>
      /\ args.data_transfer_protocol # "None"
      /\ args.compression = COMPRESSION_AUTO)
     => (/\ compression = COMPRESSION_NONE
         /\ ConstructorArgs.element_spec = args.dataset.element_spec
         /\ \A i \in 1..Len(self) : self[i].element_spec # "variant"
         /\ \A i \in 1..Len(result) :
              ~HasStep(result[i].steps, "map_uncompress"))
  /\ (api = "from_dataset_id" /\ pc = "_DataServiceDataset")
     => compression = COMPRESSION_AUTO
  /\ (api = "_from_dataset_id" /\ pc = "_DataServiceDataset")
     => compression = args.compression

C5_Witness ==
  /\ api = "distribute"
  /\ pc = "done"
  /\ tf2
  /\ args.data_transfer_protocol = "custom"
  /\ args.compression = COMPRESSION_AUTO
  /\ compression = COMPRESSION_NONE
  /\ self # <<>>
  /\ self[1].element_spec = "spec"

--------------------------------------------------------------------------
(* C6 *)

\* the resolution table of the specification
ReferenceCompression(requested, data_transfer_protocol) ==
  CASE requested = COMPRESSION_AUTO /\ data_transfer_protocol # "None"
         -> COMPRESSION_NONE
    [] requested = COMPRESSION_AUTO /\ data_transfer_protocol = "None"
         -> COMPRESSION_AUTO
    [] requested = COMPRESSION_NONE -> COMPRESSION_NONE

\* C6: once _distribute has resolved the compression, the requested mode was
\* Auto or None and the resolved mode is the one of the table; a call with
\* any other requested mode ends with a configuration error before anything
\* is registered.
C6_CompressionResolution ==
  /\ (/\ api \in {"distribute", "_distribute"}
      /\ pc \in {"_register_dataset", "_from_dataset_id",
                 "_DataServiceDataset"})
     => (/\ args.compression \in {COMPRESSION_AUTO, COMPRESSION_NONE}
         /\ compression = ReferenceCompression(args.compression,
                                               args.data_transfer_protocol))
  /\ (/\ api \in {"distribute", "_distribute"}
      /\ pc = "done"
      /\ args.compression \notin {COMPRESSION_AUTO, COMPRESSION_NONE})
     => (/\ IsConfigurationError(err)
         /\ requests = <<>>)
  /\ \A i \in 1..Len(Registrations) :
       api \in {"distribute", "_distribute"}
       => HasStep(Registrations[i].pipeline, "map_compress")
          = (ReferenceCompression(args.compression,
                                  args.data_transfer_protocol)
             = COMPRESSION_AUTO)

C6_Witness ==
  /\ api = "_distribute"
  /\ pc = "_register_dataset"
  /\ args.compression = COMPRESSION_AUTO
  /\ args.data_transfer_protocol = "None"
  /\ compression = COMPRESSION_AUTO

--------------------------------------------------------------------------
(* C7 *)

\* C7: when a call that registered a pipeline and read it back from valid
\* input has ended, the registered pipeline has a compress step if and only
\* if the dataset handed to the caller has a decompress step.
C7_CompressIffDecompress ==
  (/\ api \in PublicReaderApis
   /\ pc = "done"
   /\ tf2
   /\ ValidInput
   /\ Registrations # <<>>)
  => (HasStep(Registrations[1].pipeline, "map_compress")
      <=> (/\ result # <<>>
           /\ HasStep(result[1].steps, "map_uncompress")))

--------------------------------------------------------------------------
(* Job-name derivation on its own: from_dataset_id over a range of dataset
   ids and of job names that contain digits and the separator *)

NameAlphabet == {"t", "1", "/"}

Names == UNION {[1..n -> NameAlphabet] : n \in 1..MaxNameLen}

DatasetIds == 0..MaxDatasetId

InitDerive ==
  /\ tf2 \in BOOLEAN
  /\ api = "from_dataset_id"
  /\ \E id \in DatasetIds, n \in Names :
       args = [processing_mode |-> PARALLEL_EPOCHS,
               service |-> StrService(<<"h">>),
               job_name |-> StrJobName(n),
               consumer_index |-> None,
               num_consumers |-> None,
               data_transfer_protocol |-> "None",
               compression |-> COMPRESSION_AUTO,
               element_spec |-> "spec",
               dataset_id |-> id,
               dataset |-> NoDataset]
  /\ pc = api
  /\ compression = args.compression
  /\ job_name = args.job_name
  /\ dataset_id = args.dataset_id
  /\ element_spec = args.element_spec
  /\ err = NoError
  /\ requests = <<>>
  /\ self = <<>>
  /\ result = <<>>
  /\ cluster = EmptyCluster
  /\ observed = NothingObserved

NextDerive ==
  \/ FromDatasetId
  \/ _FromDatasetId
  \/ Construct

SpecDerive == InitDerive /\ [][NextDerive]_vars

--------------------------------------------------------------------------
(* C8 *)

Digits == {"0", "1", "2", "3", "4", "5", "6", "7", "8", "9"}

DigitValue(c) ==
  CASE c = "0" -> 0 [] c = "1" -> 1 [] c = "2" -> 2 [] c = "3" -> 3
    [] c = "4" -> 4 [] c = "5" -> 5 [] c = "6" -> 6 [] c = "7" -> 7
    [] c = "8" -> 8 [] c = "9" -> 9

RECURSIVE DecimalValue(_)
DecimalValue(s) ==
  IF s = <<>> THEN 0
  ELSE 10 * DecimalValue(SubSeq(s, 1, Len(s) - 1)) + DigitValue(s[Len(s)])

\* s contains the decimal numeral of id, delimited by "/", followed by name
Embeds(s, id, name) ==
  \E i \in 1..Len(s), j \in 1..Len(s) :
    /\ i <= j
    /\ \A k \in i..j : s[k] \in Digits
    /\ DecimalValue(SubSeq(s, i, j)) = id
    /\ i > 1 /\ s[i - 1] = "/"
    /\ j < Len(s) /\ s[j + 1] = "/"
    /\ SubSeq(s, j + 2, Len(s)) = name

\* C8: the job name from_dataset_id derives embeds the dataset id and the
\* caller's job name, and no other pair (dataset id, non-empty job name)
\* derives the same name.
C8_DerivedNamesDistinct ==
  (/\ api = "from_dataset_id"
   /\ pc \in {"_from_dataset_id", "_DataServiceDataset"}
   /\ args.job_name.kind = "str")
  => (/\ job_name.kind = "tensor"
      /\ Embeds(job_name.s, args.dataset_id, args.job_name.s)
      /\ \A id \in DatasetIds, n \in Names :
           <<id, n>> # <<args.dataset_id, args.job_name.s>>
           => DeriveJobName(id, n) # job_name.s)

C8_Witness ==
  /\ api = "from_dataset_id"
  /\ pc = "_from_dataset_id"
  /\ args.dataset_id = 1
  /\ args.job_name = StrJobName(<<"1", "t">>)
  /\ job_name.kind = "tensor"
  /\ DeriveJobName(11, <<"t">>) # job_name.s

--------------------------------------------------------------------------
(* C9 *)

\* C9: a V2 reader built from valid input is returned with its auto-shard
\* policy OFF when a job name was supplied, and with its options unchanged
\* when none was.
C9_AutoShardOffIffJobName ==
  (/\ api \in ReaderApis
   /\ pc = "done"
   /\ tf2
   /\ ValidInput)
  => (/\ result # <<>>
      /\ args.job_name.kind # "none"
         => result[1].auto_shard_policy = "OFF"
      /\ args.job_name.kind = "none"
         => result[1].auto_shard_policy = "unchanged")

--------------------------------------------------------------------------
(* C10 *)

LowestViolatedRule ==
  IF Rule1Violated THEN 1
  ELSE IF Rule2Violated THEN 2
  ELSE IF Rule3Violated THEN 3
  ELSE 0

ViolatedRules ==
  {r \in 1..3 : \/ r = 1 /\ Rule1Violated
                \/ r = 2 /\ Rule2Violated
                \/ r = 3 /\ Rule3Violated}

ErrorsOfRule(r) ==
  CASE r = 1 -> {ValueError("coupling")}
    [] r = 2 -> {ValueError("num_consumers_job_name")}
    [] r = 3 -> {ValueError("job_name_type"), ValueError("job_name_empty")}

--------------------------------------------------------------------------
(* C11 *)

BothSet == IsSet(args.consumer_index) /\ IsSet(args.num_consumers)

InRange ==
  /\ 0 <= args.consumer_index[1]
  /\ args.consumer_index[1] < args.num_consumers[1]
  /\ args.num_consumers[1] >= 1

\* C11 as stated: a job spec with both consumer_index and num_consumers
\* that the V2 constructor lets through its validation, storing the fields
\* of the job request, has 0 <= consumer_index < num_consumers and
\* num_consumers >= 1.
C11_AcceptedSpecsInRange ==
  (/\ api \in PublicReaderApis
   /\ tf2
   /\ BothSet
   /\ self # <<>>)
  => InRange

--------------------------------------------------------------------------
(* One argument at a time over a wide range, the others valid: the service
   over every string up to a length and over pre-split pairs, the
   processing mode over values near the valid ones *)

ServiceAlphabet == {"a", ":", "/"}

ServiceStrings == UNION {[1..n -> ServiceAlphabet] : n \in 0..MaxServiceLen}

ServiceComponents ==
  { <<>>, <<"a">>, <<":", "/", "/">>,
    <<"a", ":", "/", "/", "a", ":", "/", "/">> }

WideServices ==
  {StrService(s) : s \in ServiceStrings}
  \cup {TupleService(p, a) : p \in ServiceComponents, a \in ServiceComponents}
  \cup {OtherService}

WideModes ==
  { PARALLEL_EPOCHS, DISTRIBUTED_EPOCH, "bogus", "", "None",
    "PARALLEL_EPOCHS", "parallel_epoch", "distributed_epochs" }

BaseArgs(a) ==
  [processing_mode |-> PARALLEL_EPOCHS,
   service |-> StrService(<<"a">>),
   job_name |-> NoJobName,
   consumer_index |-> None,
   num_consumers |-> None,
   data_transfer_protocol |-> "None",
   compression |-> COMPRESSION_AUTO,
   element_spec |-> "spec",
   dataset_id |-> IF a = "distribute" THEN 0 - 1 ELSE 0,
   dataset |-> IF a = "distribute"
               THEN [steps |-> <<"source">>, element_spec |-> "spec",
                     external_state_policy |-> "None"]
               ELSE NoDataset]

InitArguments ==
  /\ tf2 \in BOOLEAN
  /\ api \in {"distribute", "_from_dataset_id"}
  /\ \/ \E s \in WideServices : args = [BaseArgs(api) EXCEPT !.service = s]
     \/ \E m \in WideModes :
          args = [BaseArgs(api) EXCEPT !.processing_mode = m]
  /\ pc = api
  /\ compression = args.compression
  /\ job_name = args.job_name
  /\ dataset_id = args.dataset_id
  /\ element_spec = args.element_spec
  /\ err = NoError
  /\ requests = <<>>
  /\ self = <<>>
  /\ result = <<>>
  /\ cluster = EmptyCluster
  /\ observed = NothingObserved

NextArguments ==
  \/ Distribute
  \/ _Distribute
  \/ _RegisterDataset
  \/ _FromDatasetId
  \/ Construct

SpecArguments == InitArguments /\ [][NextArguments]_vars

--------------------------------------------------------------------------
(* C12 *)

\* the positions at which "://" occurs in s
Occurrences(s) ==
  {i \in 1..(Len(s) - 2) : s[i] = ":" /\ s[i + 1] = "/" /\ s[i + 2] = "/"}

\* what the parse of the caller's service must give
ExpectedParse(service) ==
  LET s == service.s
      occ == Occurrences(s)
  IN
  IF service.kind = "other" THEN [ok |-> FALSE, protocol |-> <<>>,
                                  address |-> <<>>]
  ELSE IF s = <<>> THEN [ok |-> FALSE, protocol |-> <<>>, address |-> <<>>]
  ELSE IF Cardinality(occ) = 0
  THEN [ok |-> TRUE, protocol |-> DefaultProtocol, address |-> s]
  ELSE IF Cardinality(occ) = 1
  THEN LET i == CHOOSE k \in occ : TRUE IN
       [ok |-> TRUE, protocol |-> SubSeq(s, 1, i - 1),
        address |-> SubSeq(s, i + 3, Len(s))]
  ELSE [ok |-> FALSE, protocol |-> <<>>, address |-> <<>>]

ServiceErrors ==
  {ValueError("service_type"), ValueError("service_empty"),
   ValueError("service_malformed")}

\* C12: once _register_dataset (in distribute) or _from_dataset_id has
\* parsed a service that is not a pre-split pair, the call has failed with a
\* configuration error if the service is not a string, is empty or has two
\* or more "://"; otherwise the protocol and address it goes on with are the
\* default protocol and the whole string for no "://", and the text before
\* and after it for exactly one.
C12_ParseService ==
  (/\ args.service.kind # "tuple"
   /\ args.processing_mode \in {PARALLEL_EPOCHS, DISTRIBUTED_EPOCH}
   /\ \/ api = "distribute"
         /\ pc \in {"_from_dataset_id", "_DataServiceDataset", "done"}
      \/ api = "_from_dataset_id" /\ pc \in {"_DataServiceDataset", "done"})
  => LET e == ExpectedParse(args.service) IN
     IF ~e.ok
     THEN /\ pc = "done"
          /\ err \in ServiceErrors
          /\ Cardinality(Occurrences(args.service.s)) >= 2
             => err = ValueError("service_malformed")
          /\ requests = <<>>
          /\ self = <<>>
     ELSE /\ err \notin ServiceErrors
          /\ api = "distribute"
             => (/\ requests # <<>>
                 /\ requests[1].protocol = e.protocol
                 /\ requests[1].address = e.address)
          /\ ConstructorArgs.protocol = e.protocol
          /\ ConstructorArgs.address = e.address

C12_Witness ==
  /\ api = "distribute"
  /\ pc = "done"
  /\ tf2
  /\ args.service = StrService(<<"a", ":", "/", "/", "/", "a">>)
  /\ requests # <<>>
  /\ requests[1].protocol = <<"a">>
  /\ requests[1].address = <<"/", "a">>
  /\ self # <<>>
  /\ self[1].address = <<"/", "a">>

--------------------------------------------------------------------------
(* C13 *)

\* C13: a pre-split pair is used as it is, whatever its components hold:
\* the registration request and the reader both carry the pair's protocol
\* and address and no service check fails; and whenever one call both
\* registers and builds a reader, the two carry the same protocol and
\* address.
C13_PreSplitServiceUnparsed ==
  /\ (/\ args.service.kind = "tuple"
      /\ \/ api = "distribute"
            /\ pc \in {"_from_dataset_id", "_DataServiceDataset", "done"}
         \/ api = "_from_dataset_id" /\ pc \in {"_DataServiceDataset", "done"})
     => /\ err \notin ServiceErrors
        /\ api = "distribute"
           => (/\ requests # <<>>
               /\ requests[1].protocol = args.service.protocol
               /\ requests[1].address = args.service.address)
        /\ ConstructorArgs.protocol = args.service.protocol
        /\ ConstructorArgs.address = args.service.address
        /\ self # <<>>
           => (/\ self[1].protocol = args.service.protocol
               /\ self[1].address = args.service.address)
  /\ (requests # <<>> /\ self # <<>>)
     => (/\ self[1].protocol = requests[1].protocol
         /\ self[1].address = requests[1].address)

C13_Witness ==
  /\ api = "distribute"
  /\ pc = "done"
  /\ tf2
  /\ args.service =
       TupleService(<<>>, <<"a", ":", "/", "/", "a", ":", "/", "/">>)
  /\ requests # <<>>
  /\ requests[1].protocol = <<>>
  /\ requests[1].address = <<"a", ":", "/", "/", "a", ":", "/", "/">>
  /\ self # <<>>
  /\ self[1].protocol = <<>>
  /\ self[1].address = requests[1].address

--------------------------------------------------------------------------
(* C14 *)

\* C14: the step that validates the processing mode lets exactly
\* "parallel_epochs" and "distributed_epoch" through; for any other value
\* it ends the call with a ValueError whose message carries the offending
\* value and both valid modes, having contacted nothing and built nothing;
\* and a reader that is built carries the caller's mode, never a default.
C14_ProcessingModeValidated ==
  [][/\ (pc \in {"_distribute", "_from_dataset_id"})
        => IF args.processing_mode \in {"parallel_epochs", "distributed_epoch"}
           THEN err'.rule # "processing_mode"
           ELSE /\ err' = [type |-> "ValueError", rule |-> "processing_mode",
                           detail |-> <<args.processing_mode,
                                        "parallel_epochs",
                                        "distributed_epoch">>]
                /\ pc' = "done"
                /\ requests' = <<>>
                /\ self' = <<>>
     /\ (pc = "_DataServiceDataset" /\ self' # <<>>)
        => (/\ self'[1].processing_mode = args.processing_mode
            /\ args.processing_mode \in {"parallel_epochs",
                                         "distributed_epoch"})]_vars

C14_Witness ==
  /\ api = "distribute"
  /\ pc = "done"
  /\ args.processing_mode = "parallel_epoch"
  /\ err.type = "ValueError"
  /\ err.detail = <<"parallel_epoch", "parallel_epochs", "distributed_epoch">>
  /\ requests = <<>>
  /\ self = <<>>

--------------------------------------------------------------------------
(* C15 *)

\* C15: in a run of distribute, _distribute, from_dataset_id or
\* _from_dataset_id whose processing mode is invalid, no step issues a
\* request, builds a job spec or moves on to the registration or to the
\* reader constructor: the mode is validated before any of them.
C15_ModeValidatedBeforeRequests ==
  [][(/\ api \in ReaderApis
      /\ args.processing_mode \notin ValidModes)
     => (/\ requests' = requests
         /\ self' = <<>>
         /\ result' = <<>>
         /\ pc' \in {"_distribute", "_from_dataset_id", "done"}
         /\ pc \in {"_distribute", "_from_dataset_id"}
            => (pc' = "done" /\ err'.rule = "processing_mode"))]_vars

C15_Witness ==
  /\ api = "from_dataset_id"
  /\ pc = "done"
  /\ args.processing_mode = "bogus"
  /\ err.rule = "processing_mode"
  /\ RequestsOfCall = <<>>
  /\ self = <<>>

--------------------------------------------------------------------------
(* C16 *)

JobNameErrors == {ValueError("job_name_type"), ValueError("job_name_empty")}

\* C16: once distribute or from_dataset_id has checked its job name, a job
\* name of "" or of a non-string type has ended the call with a
\* configuration error, nothing requested and no job spec built, and an
\* absent job name has raised no job-name error; so the job name of a job
\* spec these calls build is the empty string exactly when the caller gave
\* no job name.
C16_JobNameNonEmptyString ==
  (api \in PublicReaderApis /\ pc # api)
  => /\ (args.job_name = StrJobName(<<>>) \/ args.job_name.kind \notin {"none", "str"})
        => (/\ pc = "done"
            /\ err \in JobNameErrors
            /\ args.job_name.kind = "str" => err = ValueError("job_name_empty")
            /\ args.job_name.kind # "str" => err = ValueError("job_name_type")
            /\ RequestsOfCall = <<>>
            /\ self = <<>>)
     /\ args.job_name.kind = "none" => err \notin JobNameErrors
     /\ (args.job_name.kind = "str" /\ args.job_name.s # <<>>)
        => err \notin JobNameErrors
     /\ self # <<>>
        => (self[1].job_name = <<>> <=> args.job_name.kind = "none")

C16_Witness ==
  /\ api = "distribute"
  /\ pc = "done"
  /\ tf2
  /\ args.job_name = NoJobName
  /\ self # <<>>
  /\ self[1].job_name = <<>>

--------------------------------------------------------------------------
(* A caller registering one dataset after another with one dispatcher,
   through register_dataset and through distribute *)

RegisterApis == {"register_dataset", "distribute"}

RegisterDatasets ==
  [steps : {<<"source">>, <<"source", "batch">>}, element_spec : {"spec"},
   external_state_policy : {"None", "WARN", "FAIL"}]

RegisterArgs(a) ==
  [processing_mode : {PARALLEL_EPOCHS},
   service : {StrService(<<"h">>)},
   job_name : {NoJobName},
   consumer_index : {None},
   num_consumers : {None},
   data_transfer_protocol : {"None"},
   compression : IF a = "register_dataset" THEN {COMPRESSION_AUTO}
                 ELSE {COMPRESSION_AUTO, COMPRESSION_NONE},
   element_spec : {"spec"},
   dataset_id : {0 - 1},
   dataset : RegisterDatasets]

\* _register_dataset with its register_dataset op answered by the
\* dispatcher
_RegisterDatasetAtDispatcher ==
  /\ pc = "_register_dataset"
  /\ LET r == RegisterOutcome(args.service, args.dataset, compression) IN
     IF r.err # NoError
     THEN /\ Raise(r.err)
          /\ UNCHANGED <<requests, dataset_id, element_spec, cluster,
                         observed>>
     ELSE LET answer == GetOrRegisterDataset(cluster, r.ops[1]) IN
          /\ requests' = requests \o r.ops
          /\ cluster' = answer.cluster
          /\ dataset_id' = answer.dataset_id
          /\ observed' =
               [observed EXCEPT !.registered =
                  Append(@, [dataset |-> args.dataset,
                             compression |-> compression,
                             dataset_id |-> answer.dataset_id])]
          /\ element_spec' = args.dataset.element_spec
          /\ pc' = IF api = "register_dataset" THEN "done"
                   ELSE "_from_dataset_id"
          /\ err' = err
  /\ UNCHANGED <<tf2, api, args, compression, job_name, self, result>>

\* the caller's next call
NextCall ==
  /\ pc = "done"
  /\ Len(observed.registered) < MaxCalls
  /\ \E a \in RegisterApis :
       /\ api' = a
       /\ pc' = a
       /\ args' \in RegisterArgs(a)
  /\ compression' = args'.compression
  /\ job_name' = args'.job_name
  /\ dataset_id' = args'.dataset_id
  /\ element_spec' = args'.element_spec
  /\ err' = NoError
  /\ self' = <<>>
  /\ result' = <<>>
  /\ UNCHANGED <<tf2, requests, cluster, observed>>

InitRegister ==
  /\ tf2 \in BOOLEAN
  /\ api \in RegisterApis
  /\ args \in RegisterArgs(api)
  /\ pc = api
  /\ compression = args.compression
  /\ job_name = args.job_name
  /\ dataset_id = args.dataset_id
  /\ element_spec = args.element_spec
  /\ err = NoError
  /\ requests = <<>>
  /\ self = <<>>
  /\ result = <<>>
  /\ cluster = EmptyCluster
  /\ observed = NothingObserved

NextRegister ==
  \/ RegisterDataset
  \/ Distribute
  \/ _Distribute
  \/ _RegisterDatasetAtDispatcher
  \/ _FromDatasetId
  \/ Construct
  \/ NextCall

SpecRegister == InitRegister /\ [][NextRegister]_vars

--------------------------------------------------------------------------
(* C17 *)

\* the (pipeline, external-state policy, compression) triple of a
\* registration; a dataset with no policy set has the policy WARN
TripleOf(registration) ==
  <<registration.dataset.steps,
    IF registration.dataset.external_state_policy = "None" THEN "WARN"
    ELSE registration.dataset.external_state_policy,
    registration.compression>>

\* C17: among the registrations a caller has made with one dispatcher, two
\* of the same (pipeline, external-state policy, compression) triple were
\* answered with the same dataset id, two of different triples with
\* different ids, and the dispatcher holds one registration per triple
\* registered, however often it was registered.
C17_RegistrationIdempotent ==
  LET r == observed.registered IN
  /\ \A i, j \in 1..Len(r) :
       (TripleOf(r[i]) = TripleOf(r[j])) <=> (r[i].dataset_id = r[j].dataset_id)
  /\ Len(cluster.datasets) = Cardinality({TripleOf(r[i]) : i \in 1..Len(r)})

C17_Witness ==
  LET r == observed.registered IN
  /\ Len(r) = 3
  /\ TripleOf(r[1]) = TripleOf(r[3])
  /\ TripleOf(r[1]) # TripleOf(r[2])
  /\ r[1].dataset.external_state_policy # r[3].dataset.external_state_policy
  /\ r[1].dataset_id = 0
  /\ r[2].dataset_id = 1
  /\ r[3].dataset_id = 0
  /\ Len(cluster.datasets) = 2

--------------------------------------------------------------------------
(* The jobs of the tf.data service and the consumers reading from them.
   Dispatcher and workers are not part of the client module; they follow
   the documented behaviour of distribute: datasets with the same job_name
   consume from the same job, first come first served; without a job name a
   dataset creates an anonymous, exclusively owned job; with consumer_index
   and num_consumers "each consumer will read an element from the first
   worker, then each consumer will read an element from the second worker,
   and so on".  A consumer joins with the fields its reader was constructed
   with. *)

\* the num_consumers of the round-robin jobs the consumers join
ScenarioConsumers == 2

\* the workers that have registered with the dispatcher
Workers(c) == 1..c.workers

NewJob(c, fields) ==
  [job_name |-> fields.job_name,
   dataset_id |-> fields.dataset_id,
   num_consumers |-> fields.num_consumers,
   taken |-> IF fields.num_consumers >= 0 THEN {fields.consumer_index}
             ELSE {},
   tasks |-> [w \in Workers(c) |-> 0],
   round |-> 0,
   buffer |-> {}]

IsRoundRobin(job) == job.num_consumers >= 0

\* every worker's task has produced the whole of a finite dataset
JobEnded(c, job) ==
  /\ ~c.unbounded
  /\ ~IsRoundRobin(job)
  /\ \A w \in Workers(c) : job.tasks[w] = SourceLen

CreateOrJoinJob_Restarting(c, fields) ==
  LET found == {j \in 1..Len(c.jobs) :
                  /\ fields.job_name # <<>>
                  /\ c.jobs[j].job_name = fields.job_name
                  /\ c.jobs[j].dataset_id = fields.dataset_id}
  IN
  IF found = {}
  THEN [cluster |-> [c EXCEPT !.jobs = Append(@, NewJob(c, fields))],
        job |-> Len(c.jobs) + 1, created |-> TRUE, error |-> FALSE]
  ELSE LET j == CHOOSE k \in found : TRUE IN
       IF JobEnded(c, c.jobs[j])
       THEN [cluster |-> [c EXCEPT !.jobs[j] = NewJob(c, fields)],
             job |-> j, created |-> FALSE, error |-> FALSE]
       ELSE [cluster |-> c, job |-> j, created |-> FALSE, error |-> FALSE]

\* an empty job name asks for an anonymous job, which is always new; a job
\* of the caller's name is joined if there is one, ended or not, unless its
\* round-robin parameters do not fit
CreateOrJoinJob(c, fields) ==
  LET found == {j \in 1..Len(c.jobs) :
                  /\ fields.job_name # <<>>
                  /\ c.jobs[j].job_name = fields.job_name
                  /\ c.jobs[j].dataset_id = fields.dataset_id}
  IN
  IF found = {}
  THEN [cluster |-> [c EXCEPT !.jobs = Append(@, NewJob(c, fields))],
        job |-> Len(c.jobs) + 1, created |-> TRUE, error |-> FALSE]
  ELSE LET j == CHOOSE k \in found : TRUE IN
       IF \/ c.jobs[j].num_consumers # fields.num_consumers
          \/ fields.consumer_index \in c.jobs[j].taken
       THEN [cluster |-> c, job |-> 0, created |-> FALSE, error |-> TRUE]
       ELSE [cluster |->
               [c EXCEPT !.jobs[j].taken =
                  IF fields.num_consumers >= 0
                  THEN @ \cup {fields.consumer_index} ELSE @],
             job |-> j, created |-> FALSE, error |-> FALSE]

\* the reader arguments of the consumers: round-robin reads of a dataset
\* that repeats forever, first-come-first-served reads of a finite one
JoinArgs(unbounded) ==
  [dataset_id : {0},
   processing_mode : {PARALLEL_EPOCHS},
   address : {<<"h">>},
   protocol : {DefaultProtocol},
   element_spec : {"variant"},
   data_transfer_protocol : {"None"},
   job_name :
     {NoJobName}
     \cup {StrJobName(<<n>>) :
             n \in IF unbounded THEN {"t", "u"} ELSE {"t", "u", "v"}},
   consumer_index :
     IF unbounded THEN {Some(i) : i \in 0..(ScenarioConsumers - 1)}
     ELSE {None},
   num_consumers :
     IF unbounded THEN {Some(ScenarioConsumers)} ELSE {None}]

NewConsumer(a, answer, ended) ==
  [job |-> answer.job,
   named |-> a.job_name.kind # "none",
   consumer_index |-> IF a.consumer_index = None THEN 0 - 1
                      ELSE a.consumer_index[1],
   created |-> answer.created,
   joined_ended |-> ended,
   error |-> answer.error,
   requesting |-> FALSE,
   received |-> <<>>,
   end_of_input |-> FALSE]

\* a consumer's reader is constructed and creates or joins its job
Join ==
  /\ Len(observed.consumers) < IF cluster.unbounded THEN MaxRoundRobinJoins
                               ELSE MaxJoins
  /\ \E a \in JoinArgs(cluster.unbounded) :
       /\ (a.consumer_index = None) <=> (a.num_consumers = None)
       /\ DataServiceDatasetV2(a).self # <<>>
       /\ LET fields == DataServiceDatasetV2(a).self[1]
              answer == CreateOrJoinJob(cluster, fields)
              ended == /\ ~answer.error
                       /\ ~answer.created
                       /\ JobEnded(cluster, cluster.jobs[answer.job])
          IN
          /\ cluster' = answer.cluster
          /\ observed' = [observed EXCEPT !.consumers =
                            Append(@, NewConsumer(a, answer, ended))]
  /\ UNCHANGED <<tf2, api, args, pc, compression, job_name, dataset_id,
                 element_spec, err, requests, self, result>>

Consumers == 1..Len(observed.consumers)

ConsumersOf(j) == {c \in Consumers : observed.consumers[c].job = j}

\* a consumer of a round-robin job asks for its element of the next round
Request(c) ==
  /\ ~observed.consumers[c].error
  /\ ~observed.consumers[c].requesting
  /\ IsRoundRobin(cluster.jobs[observed.consumers[c].job])
  /\ Len(observed.consumers[c].received) < MaxRounds
  /\ observed' = [observed EXCEPT !.consumers[c].requesting = TRUE]
  /\ UNCHANGED cluster
  /\ UNCHANGED <<tf2, api, args, pc, compression, job_name, dataset_id,
                 element_spec, err, requests, self, result>>

WorkerOfRound(r) == (r % cluster.workers) + 1

RoundReady_AnyConsumer(j) ==
  \E c \in ConsumersOf(j) :
    /\ observed.consumers[c].requesting
    /\ Len(observed.consumers[c].received) = cluster.jobs[j].round

\* every consumer of the job has asked for an element of the next round
RoundReady(j) ==
  \A i \in 0..(cluster.jobs[j].num_consumers - 1) :
    \E c \in ConsumersOf(j) :
      /\ observed.consumers[c].consumer_index = i
      /\ observed.consumers[c].requesting
      /\ Len(observed.consumers[c].received) = cluster.jobs[j].round

\* the worker of the round produces one element for each consumer
PrepareRound(j) ==
  /\ IsRoundRobin(cluster.jobs[j])
  /\ RoundReady(j)
  /\ cluster' =
       [cluster EXCEPT
          !.jobs[j].round = @ + 1,
          !.jobs[j].buffer =
             @ \cup {[worker |-> WorkerOfRound(cluster.jobs[j].round),
                      round |-> cluster.jobs[j].round,
                      slot |-> i] :
                     i \in 0..(cluster.jobs[j].num_consumers - 1)}]
  /\ UNCHANGED observed
  /\ UNCHANGED <<tf2, api, args, pc, compression, job_name, dataset_id,
                 element_spec, err, requests, self, result>>

Deliverable_AnySlot(job, consumer) ==
  {e \in job.buffer : e.round = Len(consumer.received)}

\* the elements of a round-robin job a consumer may be handed
Deliverable(job, consumer) ==
  {e \in job.buffer :
     /\ e.round = Len(consumer.received)
     /\ e.slot = consumer.consumer_index}

ReceiveRoundRobin(c) ==
  /\ observed.consumers[c].requesting
  /\ LET j == observed.consumers[c].job IN
     /\ IsRoundRobin(cluster.jobs[j])
     /\ \E e \in Deliverable(cluster.jobs[j], observed.consumers[c]) :
          /\ cluster' = [cluster EXCEPT !.jobs[j].buffer = @ \ {e}]
          /\ observed' = [observed EXCEPT
                            !.consumers[c].received = Append(@, e),
                            !.consumers[c].requesting = FALSE]
  /\ UNCHANGED <<tf2, api, args, pc, compression, job_name, dataset_id,
                 element_spec, err, requests, self, result>>

\* some worker's task hands the consumer its next element of the (finite)
\* dataset
ReceiveFirstCome(c) ==
  /\ ~observed.consumers[c].error
  /\ ~observed.consumers[c].end_of_input
  /\ LET j == observed.consumers[c].job IN
     /\ ~IsRoundRobin(cluster.jobs[j])
     /\ \E w \in Workers(cluster) :
          /\ cluster.jobs[j].tasks[w] < SourceLen
          /\ cluster' = [cluster EXCEPT !.jobs[j].tasks[w] = @ + 1]
          /\ observed' =
               [observed EXCEPT
                  !.consumers[c].received =
                     Append(@, [worker |-> w,
                                round |-> cluster.jobs[j].tasks[w],
                                slot |-> 0 - 1])]
  /\ UNCHANGED <<tf2, api, args, pc, compression, job_name, dataset_id,
                 element_spec, err, requests, self, result>>

\* every task is through the dataset: the consumer is told so
ReceiveEndOfInput(c) ==
  /\ ~observed.consumers[c].error
  /\ ~observed.consumers[c].end_of_input
  /\ JobEnded(cluster, cluster.jobs[observed.consumers[c].job])
  /\ observed' = [observed EXCEPT !.consumers[c].end_of_input = TRUE]
  /\ UNCHANGED cluster
  /\ UNCHANGED <<tf2, api, args, pc, compression, job_name, dataset_id,
                 element_spec, err, requests, self, result>>

InitService(unbounded, workers) ==
  /\ tf2 = TRUE
  /\ api = "distribute"
  /\ args = BaseArgs(api)
  /\ pc = "done"
  /\ compression = args.compression
  /\ job_name = args.job_name
  /\ dataset_id = 0
  /\ element_spec = args.element_spec
  /\ err = NoError
  /\ requests = <<>>
  /\ self = <<>>
  /\ result = <<>>
  /\ cluster = [EmptyCluster EXCEPT !.unbounded = unbounded,
                                    !.workers = workers]
  /\ observed = NothingObserved

(* consumers of a dataset that repeats forever, reading round robin *)

InitRoundRobin == InitService(TRUE, NumWorkers)

NextRoundRobin ==
  \/ Join
  \/ \E c \in Consumers : Request(c)
  \/ \E j \in 1..Len(cluster.jobs) : PrepareRound(j)
  \/ \E c \in Consumers : ReceiveRoundRobin(c)

SpecRoundRobin == InitRoundRobin /\ [][NextRoundRobin]_vars

\* workers and consumers that keep running
SpecRoundRobinFair ==
  /\ SpecRoundRobin
  /\ WF_vars(\E j \in 1..Len(cluster.jobs) : PrepareRound(j))
  /\ \A c \in 1..MaxRoundRobinJoins :
       /\ WF_vars(c \in Consumers /\ Request(c))
       /\ WF_vars(c \in Consumers /\ ReceiveRoundRobin(c))

(* consumers of a finite dataset, reading first come first served *)

InitJobs == InitService(FALSE, JobWorkers)

NextJobs ==
  \/ Join
  \/ \E c \in Consumers : ReceiveFirstCome(c)
  \/ \E c \in Consumers : ReceiveEndOfInput(c)

SpecJobs == InitJobs /\ [][NextJobs]_vars

--------------------------------------------------------------------------
(* C18 *)

RoundRobinJobs ==
  {j \in 1..Len(cluster.jobs) : cluster.jobs[j].num_consumers >= 0}

\* the elements the workers have produced for a round-robin job
ProducedFor(j) ==
  {[worker |-> (r % NumWorkers) + 1, round |-> r, slot |-> i] :
     r \in 0..(cluster.jobs[j].round - 1),
     i \in 0..(cluster.jobs[j].num_consumers - 1)}

\* the deliveries of element e of job j: who received it, and when
Deliveries(j, e) ==
  {d \in ConsumersOf(j) \X (1..MaxRounds) :
     /\ d[2] <= Len(observed.consumers[d[1]].received)
     /\ observed.consumers[d[1]].received[d[2]] = e}

\* every element produced has either been delivered, once and to one
\* consumer, or waits for the one consumer that has asked for it
ExactlyOnce(j) ==
  /\ \A e \in ProducedFor(j) :
       IF e \in cluster.jobs[j].buffer
       THEN /\ Deliveries(j, e) = {}
            /\ \E c \in ConsumersOf(j) :
                 /\ observed.consumers[c].consumer_index = e.slot
                 /\ Len(observed.consumers[c].received) = e.round
                 /\ observed.consumers[c].requesting
       ELSE Cardinality(Deliveries(j, e)) = 1
  /\ cluster.jobs[j].buffer \subseteq ProducedFor(j)
  /\ \A c \in ConsumersOf(j) :
       \A k \in 1..Len(observed.consumers[c].received) :
         observed.consumers[c].received[k] \in ProducedFor(j)

\* consumer c reads from a round-robin job all of whose consumers have
\* joined
InFullJob(c) ==
  /\ c \in Consumers
  /\ ~observed.consumers[c].error
  /\ observed.consumers[c].job \in RoundRobinJobs
  /\ LET job == cluster.jobs[observed.consumers[c].job] IN
     job.taken = 0..(job.num_consumers - 1)

\* consumer c has received an element of every round explored
ReadAllRounds(c) ==
  /\ c \in Consumers
  /\ Len(observed.consumers[c].received) = MaxRounds

--------------------------------------------------------------------------
(* C19 *)

--------------------------------------------------------------------------
(* C20 *)

--------------------------------------------------------------------------
(* distribute, then register_dataset and from_dataset_id on the arguments
   distribute was given; the outcome of distribute is kept in
   observed.calls *)

\* distribute as the claim calls it: the compression left at its default
CombinedArgs ==
  {a \in ArgsOf("distribute") : a.compression = COMPRESSION_AUTO}

InitCombined ==
  /\ tf2 \in BOOLEAN
  /\ api = "distribute"
  /\ args \in CombinedArgs
  /\ pc = api
  /\ compression = args.compression
  /\ job_name = args.job_name
  /\ dataset_id = args.dataset_id
  /\ element_spec = args.element_spec
  /\ err = NoError
  /\ requests = <<>>
  /\ self = <<>>
  /\ result = <<>>
  /\ cluster = EmptyCluster
  /\ observed = NothingObserved

Outcome ==
  [requests |-> requests, self |-> self, err |-> err, result |-> result]

\* register_dataset(service, dataset) after distribute has returned or raised
StartRegisterDataset ==
  /\ pc = "done"
  /\ api = "distribute"
  /\ observed' = [observed EXCEPT !.calls = Append(@, Outcome)]
  /\ api' = "register_dataset"
  /\ pc' = "register_dataset"
  /\ job_name' = NoJobName
  /\ err' = NoError
  /\ requests' = <<>>
  /\ self' = <<>>
  /\ result' = <<>>
  /\ UNCHANGED <<tf2, args, compression, dataset_id, element_spec, cluster>>

\* from_dataset_id with the returned id, dataset.element_spec and the
\* arguments distribute was given
StartFromRegisteredId ==
  /\ pc = "done"
  /\ api = "register_dataset"
  /\ err = NoError
  /\ api' = "from_dataset_id"
  /\ pc' = "from_dataset_id"
  /\ job_name' = args.job_name
  /\ element_spec' = args.dataset.element_spec
  /\ compression' = COMPRESSION_AUTO
  /\ UNCHANGED <<cluster, observed>>
  /\ UNCHANGED <<tf2, args, dataset_id, err, requests, self, result>>

NextCombined ==
  \/ Distribute
  \/ _Distribute
  \/ _RegisterDataset
  \/ _FromDatasetId
  \/ Construct
  \/ StartRegisterDataset
  \/ RegisterDataset
  \/ StartFromRegisteredId
  \/ FromDatasetId

SpecCombined == InitCombined /\ [][NextCombined]_vars

--------------------------------------------------------------------------
(* C21 *)

\* register_dataset and from_dataset_id have both ended
PairDone ==
  /\ pc = "done"
  /\ observed.calls # <<>>
  /\ api \in {"register_dataset", "from_dataset_id"}
  /\ api = "register_dataset" => err # NoError

\* the job create-or-join parameters among the fields a reader stores; the
\* element spec tells whether the reader decompresses
JobParameters(reader) ==
  IF reader = <<>> THEN <<>>
  ELSE <<[job_name |-> reader[1].job_name,
          element_spec |-> reader[1].element_spec,
          consumer_index |-> reader[1].consumer_index,
          num_consumers |-> reader[1].num_consumers]>>

\* C21 as stated: whenever distribute and, on the same arguments,
\* register_dataset followed by from_dataset_id have both got as far as
\* the job request, the two have issued the same registration request and
\* the same job parameters (job name, compression handling, consumer index
\* and count).
C21_DistributeIsRegisterThenRead ==
  (/\ PairDone
   /\ self # <<>>
   /\ observed.calls[1].self # <<>>)
  => /\ requests = observed.calls[1].requests
     /\ JobParameters(self) = JobParameters(observed.calls[1].self)

--------------------------------------------------------------------------
(* C23 *)

\* C23 as stated: for every job spec the V2 constructor lets through its
\* validation, the consumer_index stored for the job request is -1 exactly
\* when the caller left consumer_index absent, and the same holds for
\* num_consumers.
C23_AbsentEncodingUnambiguous ==
  (/\ api \in PublicReaderApis
   /\ tf2
   /\ self # <<>>)
  => /\ self[1].consumer_index = 0 - 1 <=> ~IsSet(args.consumer_index)
     /\ self[1].num_consumers = 0 - 1 <=> ~IsSet(args.num_consumers)

--------------------------------------------------------------------------
(* C24 *)

\* C24 as stated: the V1 wrapper takes every keyword _from_dataset_id
\* passes, and whichever of V1 and V2 is selected, the construction ends
\* as the V2 constructor ends on the same arguments: the same error or
\* none, and the same fields of the job request.
C24_V1ConstructsLikeV2 ==
  [][(pc = "_DataServiceDataset" /\ pc' = "done")
     => /\ ConstructorKeywords \subseteq V1Parameters
        /\ err' = DataServiceDatasetV2(ConstructorArgs).err
        /\ self' = DataServiceDatasetV2(ConstructorArgs).self]_vars

--------------------------------------------------------------------------
(* The request limits of a reader.  The limits a reader is given are the
   client's (the defaults of the entry points and the constructor); the
   reader that issues element requests to the workers is the service
   runtime's and follows the specification.  Here `requests[w]` is the
   number of element requests in flight to worker w. *)

MaxDepth == 2
MaxOutstanding == 3
ReaderWorkers == 2

AUTOTUNE == 0 - 1

ReaderEntryPoints ==
  {"distribute", "_distribute", "from_dataset_id", "_from_dataset_id",
   "_DataServiceDatasetV2"}

\* the value of max_request_pipelining_per_worker in the signature of each
\* entry point
DefaultPipelining_FromDatasetIdRaised(a) ==
  IF a = "from_dataset_id" THEN 2 ELSE 1

DefaultPipelining(a) ==
  CASE a = "distribute" -> 1
    [] a = "_distribute" -> 1
    [] a = "from_dataset_id" -> 1
    [] a = "_from_dataset_id" -> 1
    [] a = "_DataServiceDatasetV2" -> 1

\* the limits the constructor stores: every entry point hands both values
\* on unchanged, and the constructor turns an unset max_outstanding_requests
\* into AUTOTUNE
ReaderLimits(a, max_outstanding_requests, max_request_pipelining) ==
  [max_outstanding_requests |->
     IF max_outstanding_requests = None THEN AUTOTUNE
     ELSE max_outstanding_requests[1],
   max_request_pipelining_per_worker |->
     IF max_request_pipelining = None THEN DefaultPipelining(a)
     ELSE max_request_pipelining[1]]

LimitArgs ==
  [max_outstanding_requests :
     {None} \cup {Some(n) : n \in 1..MaxOutstanding},
   max_request_pipelining_per_worker :
     {None} \cup {Some(n) : n \in 1..MaxDepth}]

InitReader ==
  /\ tf2 = TRUE
  /\ api \in ReaderEntryPoints
  /\ args \in LimitArgs
  /\ pc = api
  /\ compression = COMPRESSION_AUTO
  /\ job_name = NoJobName
  /\ dataset_id = 0
  /\ element_spec = "spec"
  /\ err = NoError
  /\ requests = [w \in 1..ReaderWorkers |-> 0]
  /\ self = <<>>
  /\ result = <<>>
  /\ cluster = EmptyCluster
  /\ observed = NothingObserved

OpenReader ==
  /\ pc = api
  /\ self = <<>>
  /\ self' = <<ReaderLimits(api, args.max_outstanding_requests,
                            args.max_request_pipelining_per_worker)>>
  /\ pc' = "reading"
  /\ UNCHANGED <<cluster, observed>>
  /\ UNCHANGED <<tf2, api, args, compression, job_name, dataset_id,
                 element_spec, err, requests, result>>

RECURSIVE Total(_)
Total(s) == IF s = <<>> THEN 0 ELSE Head(s) + Total(Tail(s))

MayRequest(limits, inflight, w) ==
  /\ inflight[w] < limits.max_request_pipelining_per_worker
  /\ \/ limits.max_outstanding_requests = AUTOTUNE
     \/ Total(inflight) < limits.max_outstanding_requests

\* the reader asks worker w for an element
ReadElement(w) ==
  /\ pc = "reading"
  /\ MayRequest(self[1], requests, w)
  /\ requests' = [requests EXCEPT ![w] = @ + 1]
  /\ UNCHANGED <<cluster, observed>>
  /\ UNCHANGED <<tf2, api, args, pc, compression, job_name, dataset_id,
                 element_spec, err, self, result>>

\* worker w answers one of the requests in flight to it
ElementReceived(w) ==
  /\ pc = "reading"
  /\ requests[w] > 0
  /\ requests' = [requests EXCEPT ![w] = @ - 1]
  /\ UNCHANGED <<cluster, observed>>
  /\ UNCHANGED <<tf2, api, args, pc, compression, job_name, dataset_id,
                 element_spec, err, self, result>>

NextReader ==
  \/ OpenReader
  \/ \E w \in 1..ReaderWorkers : ReadElement(w)
  \/ \E w \in 1..ReaderWorkers : ElementReceived(w)

SpecReader == InitReader /\ [][NextReader]_vars

--------------------------------------------------------------------------
(* C22 *)

====
